---- MODULE Spec2Model ----
(***************************************************************************)
(* Model of splotr (src/splotr.go): the MP3 frame header decoder           *)
(* DeserializeFrame, and the program around it (main, Load, GetFileSize).  *)
(***************************************************************************)
EXTENDS Integers, Sequences, FiniteSets, TLC

(* ---- bounds ----------------------------------------------------------- *)
MaxLen == 5       \* longest buffer handed to DeserializeFrame
MaxCalls == 2     \* how often one buffer is decoded
MaxFileLen == 5   \* longest file given to Load

(* ---- machine integers -------------------------------------------------- *)
ByteMax == 255
Byte == 0..ByteMax

RECURSIVE BitAnd(_, _)
BitAnd(a, b) ==
  IF a = 0 \/ b = 0 THEN 0
  ELSE (IF a % 2 = 1 /\ b % 2 = 1 THEN 1 ELSE 0) + 2 * BitAnd(a \div 2, b \div 2)

RECURSIVE BitOr(_, _)
BitOr(a, b) ==
  IF a = 0 THEN b
  ELSE IF b = 0 THEN a
  ELSE (IF a % 2 = 1 \/ b % 2 = 1 THEN 1 ELSE 0) + 2 * BitOr(a \div 2, b \div 2)

Shr(a, n) == a \div (2 ^ n)
Shl16(a, n) == (a * (2 ^ n)) % 65536

(* ---- DeserializeFrame -------------------------------------------------- *)
\* Go indexes from 0, sequences from 1: fr[k] in the source is fr[k + 1] here.
B0(fr) == fr[1]
B1(fr) == fr[2]
B2(fr) == fr[3]
B3_last(fr) == fr[Len(fr)]
B3(fr) == fr[4]

Emphasis_wide(b0) == BitAnd(b0, 7)
Emphasis(b0) == BitAnd(b0, 3)
Original(b0) == BitAnd(Shr(b0, 2), 1)
Copyright(b0) == BitAnd(Shr(b0, 3), 1)
ModeExt(b0) == BitAnd(Shr(b0, 4), 3)
ChannelMode_narrow(b0) == BitAnd(Shr(b0, 6), 1)
ChannelMode(b0) == BitAnd(Shr(b0, 6), 3)

Unused(b1) == BitAnd(b1, 1)
IsPadded(b1) == BitAnd(Shr(b1, 1), 1)
Srfi_shifted(b1) == BitAnd(Shr(b1, 3), 3)
Srfi(b1) == BitAnd(Shr(b1, 2), 3)
BitrateIdx(b1) == BitAnd(Shr(b1, 4), 15)

CrcProtected(b2) == BitAnd(b2, 1)
LayerDesc(b2) == BitAnd(Shr(b2, 1), 3)
AudioVer(b2) == BitAnd(Shr(b2, 3), 3)

\* hdr.FrameSync starts at 0 (new(Mp3FrameHeader)) and is or-ed into.
FrameSync_byteshift(b2, b3) == BitOr(0, BitOr(Shr(b2, 5), (b3 * 8) % 256))
FrameSync(b2, b3) == BitOr(0, BitOr(Shr(b2, 5), Shl16(b3, 3)))

Mp3FrameHeader(b0, b1, b2, b3) ==
  [ Emphasis     |-> Emphasis(b0),
    Original     |-> Original(b0),
    Copyright    |-> Copyright(b0),
    ModeExt      |-> ModeExt(b0),
    ChannelMode  |-> ChannelMode(b0),
    Unused       |-> Unused(b1),
    IsPadded     |-> IsPadded(b1),
    Srfi         |-> Srfi(b1),
    BitrateIdx   |-> BitrateIdx(b1),
    CrcProtected |-> CrcProtected(b2),
    LayerDesc    |-> LayerDesc(b2),
    AudioVer     |-> AudioVer(b2),
    FrameSync    |-> FrameSync(b2, b3) ]

NoRet == [kind |-> "none"]
\* fr[k] with k >= len(fr) is a run-time panic (index out of range); the
\* function has no error result and nothing recovers the panic.
IndexPanic == [kind |-> "panic"]

DeserializeFrame_strict(fr) ==
  IF Len(fr) <= 4 THEN IndexPanic
  ELSE [kind |-> "hdr", hdr |-> Mp3FrameHeader(B0(fr), B1(fr), B2(fr), B3(fr))]
DeserializeFrame(fr) ==
  IF Len(fr) < 4 THEN IndexPanic
  ELSE [kind |-> "hdr", hdr |-> Mp3FrameHeader(B0(fr), B1(fr), B2(fr), B3(fr))]

FillBytes == {0, ByteMax}

VARIABLES fr, ret, prev, ncalls
dvars == <<fr, ret, prev, ncalls>>


(* ---- the program: main, Load, GetFileSize ------------------------------ *)
VARIABLES pc, hasArg, file, io, handle, err, frame, out, nreads, ndecodes, panicmsg
pvars == <<pc, hasArg, file, io, handle, err, frame, out, nreads, ndecodes, panicmsg>>
vars == <<fr, ret, prev, ncalls, pc, hasArg, file, io, handle, err, frame, out,
          nreads, ndecodes, panicmsg>>

Nil == [kind |-> "nil"]
Path == "a.mp3"
NoIo == [read |-> "none", stat |-> "none"]

\* the files on disk: the first and the last byte take every value of Byte
FileContents(L) ==
  { [base EXCEPT ![i] = v] : base \in [1..L -> FillBytes], i \in {1, L}, v \in Byte }

PIdle ==
  /\ pc = "off" /\ hasArg = FALSE /\ file = << >> /\ io = NoIo /\ handle = Nil
  /\ err = Nil /\ frame = NoRet /\ out = << >> /\ nreads = 0 /\ ndecodes = 0
  /\ panicmsg = ""

DIdle == fr = << >> /\ ret = NoRet /\ prev = NoRet /\ ncalls = 0

\* every printed line is the tuple of the arguments of its fmt.Println
Banner == << <<"Splotr v1.0 - sound plotter">>, <<"Written by Ian M. Moffett">> >>

\* the "\x00" written over the last byte of a non-empty buffer
StripTrailing(data) ==
  IF Len(data) > 0 THEN [data EXCEPT ![Len(data)] = 0] ELSE data

\* os.Open's error is overwritten by f.Stat()'s, which fails on a nil file too
GetFileSize_noerr(size, statOk) ==
  IF ~statOk THEN [size |-> -1, err |-> Nil, out |-> << <<"internal error: Failed to get file size">> >>]
  ELSE [size |-> size, err |-> Nil, out |-> << >>]
GetFileSize(size, statOk) ==
  IF ~statOk THEN [size |-> -1, err |-> [kind |-> "stat"],
                   out |-> << <<"internal error: Failed to get file size">> >>]
  ELSE [size |-> size, err |-> Nil, out |-> << >>]

OrigStr(h) == IF h.Original = 1 THEN "yes" ELSE "no"
CopyrStr_orig(h) == IF h.Original = 1 THEN "yes" ELSE "no"
CopyrStr(h) == IF h.Copyright = 1 THEN "yes" ELSE "no"

Init ==
  /\ pc = "main"
  /\ hasArg \in BOOLEAN
  /\ file \in IF hasArg THEN {<< >>} \cup UNION { FileContents(L) : L \in 1..MaxFileLen }
              ELSE {<< >>}
  /\ io = NoIo /\ handle = Nil /\ err = Nil /\ frame = NoRet /\ out = << >>
  /\ nreads = 0 /\ ndecodes = 0 /\ panicmsg = ""
  /\ DIdle

\* main up to the call of Load
MainStart ==
  /\ pc = "main"
  /\ IF ~hasArg
       THEN /\ pc' = "abort"
            /\ panicmsg' = "too few arguments!"
       ELSE /\ pc' = "load"
            /\ UNCHANGED panicmsg
  /\ out' = out \o Banner
  /\ UNCHANGED <<hasArg, file, io, handle, err, frame, nreads, ndecodes>>
  /\ UNCHANGED dvars

\* Load(path), with the outcome of os.ReadFile and of the stat chosen by the
\* file system
Load ==
  /\ pc = "load"
  /\ \E readOk \in BOOLEAN, statOk \in BOOLEAN :
       LET data == StripTrailing(file)
           gfs  == GetFileSize(Len(file), statOk)
           d    == DeserializeFrame(data)
       IN  /\ nreads' = nreads + 1
           /\ IF ~readOk
                THEN /\ io' = [read |-> "fail", stat |-> "none"]
                     /\ out' = out \o << <<"error: failed to open", Path>> >>
                     /\ handle' = Nil
                     /\ err' = [kind |-> "read"]
                     /\ pc' = "ret"
                     /\ UNCHANGED <<frame, ndecodes, panicmsg>>
                ELSE IF gfs.err # Nil
                THEN /\ io' = [read |-> "ok", stat |-> IF statOk THEN "ok" ELSE "fail"]
                     /\ out' = out \o gfs.out
                     /\ handle' = Nil
                     /\ err' = gfs.err
                     /\ pc' = "ret"
                     /\ UNCHANGED <<frame, ndecodes, panicmsg>>
                ELSE IF d.kind = "panic"
                THEN /\ io' = [read |-> "ok", stat |-> IF statOk THEN "ok" ELSE "fail"]
                     /\ out' = out \o gfs.out
                     /\ ndecodes' = ndecodes + 1
                     /\ pc' = "abort"
                     /\ panicmsg' = "index out of range"
                     /\ UNCHANGED <<handle, err, frame>>
                ELSE /\ io' = [read |-> "ok", stat |-> IF statOk THEN "ok" ELSE "fail"]
                     /\ ndecodes' = ndecodes + 1
                     /\ frame' = d
                     /\ out' = out \o gfs.out \o
                                << <<"Emphasis: ", d.hdr.Emphasis>>,
                                   <<"Original copy: ", OrigStr(d.hdr)>>,
                                   <<"Is copyrighted: ", CopyrStr(d.hdr)>> >>
                     /\ handle' = [kind |-> "file", Path |-> Path, DurationMin |-> 0,
                                   DurationSec |-> 0, Size |-> gfs.size, Contents |-> data]
                     /\ err' = Nil
                     /\ pc' = "ret"
                     /\ UNCHANGED panicmsg
  /\ UNCHANGED <<hasArg, file>>
  /\ UNCHANGED dvars

\* main after Load has returned
MainFinish ==
  /\ pc = "ret"
  /\ IF err # Nil
       THEN /\ out' = out \o << <<"Could not find ", Path>> >>
            /\ panicmsg' = "bailing"
            /\ pc' = "abort"
       ELSE /\ pc' = "exit"
            /\ UNCHANGED <<out, panicmsg>>
  /\ UNCHANGED <<hasArg, file, io, handle, err, frame, nreads, ndecodes>>
  /\ UNCHANGED dvars

Next == MainStart \/ Load \/ MainFinish
Spec == Init /\ [][Next]_vars

(* ---- the decoder called on a buffer ------------------------------------ *)
DInit == DIdle /\ PIdle

\* DeserializeFrame(f) is called and returns (or panics)
Decode(f) ==
  /\ fr' = f
  /\ ret' = DeserializeFrame(f)
  /\ prev' = ret
  /\ ncalls' = ncalls + 1
  /\ UNCHANGED pvars

\* the caller passes a new buffer on the first call and the same one afterwards
Call ==
  /\ ncalls < MaxCalls
  /\ IF ncalls > 0 THEN Decode(fr)
     ELSE \/ Decode(<< >>)
          \/ \E L \in 1..MaxLen : \E base \in [1..L -> FillBytes], i \in 1..L, v \in Byte :
               Decode([base EXCEPT ![i] = v])
          \/ \E x \in Byte, y \in Byte : Decode(<<64, 32, x, y>>)

DNext == Call
SpecDecode == DInit /\ [][DNext]_vars

(* ======================================================================= *)
(* Properties                                                              *)
(* ======================================================================= *)
Bits(b, k, w) == (b \div (2 ^ k)) % (2 ^ w)
Decoded == ret.kind = "hdr"
Lead(f) == SubSeq(f, 1, 4)

\* C1: on every buffer of length 0..3 DeserializeFrame ends in a
\* TruncatedInput error that is returned to the caller as a value.
C1_TruncatedInputReturned ==
  (ncalls > 0 /\ Len(fr) < 4) => ret.kind = "TruncatedInput"

\* C2: the header Load decodes equals the header of the file's original
\* first four bytes, whatever the file's length: zeroing the last byte of
\* the buffer changes no decoded field.
C2_StripLeavesHeader ==
  frame.kind = "hdr" => frame = DeserializeFrame(file)

\* C3: the decoded header depends on the first four bytes only: decoding
\* the buffer, its four lead bytes alone, the buffer with a byte appended,
\* or the same buffer again gives the same record.
C3_FirstFourBytesOnly ==
  Decoded =>
    /\ ret = DeserializeFrame(Lead(fr))
    /\ \A t \in FillBytes : ret = DeserializeFrame(Append(fr, t))
    /\ prev.kind = "hdr" => prev = ret
C3_Witness ==
  /\ Decoded /\ prev.kind = "hdr" /\ Len(fr) > 4
  /\ fr[5] # fr[4] /\ fr[5] # fr[3]

C5_FrameSyncSplit ==
  Decoded =>
    /\ ret.hdr.FrameSync = (fr[3] \div 32) + 8 * fr[4]
    /\ Lead(fr) = <<64, 32, 251, 255>> =>
         /\ ret.hdr.FrameSync = 2047
         /\ ret.hdr.AudioVer = 3
         /\ ret.hdr.LayerDesc = 1
         /\ ret.hdr.CrcProtected = 1
C5_Witness ==
  Decoded /\ Lead(fr) = <<64, 32, 251, 255>> /\ ret.hdr.FrameSync = 2047

\* C6: decoding is lossless: the field widths add up to 32 and packing the
\* decoded fields back at their bit positions gives the four lead bytes.
FieldWidth ==
  [ FrameSync |-> 11, AudioVer |-> 2, LayerDesc |-> 2, CrcProtected |-> 1,
    BitrateIdx |-> 4, Srfi |-> 2, IsPadded |-> 1, Unused |-> 1,
    ChannelMode |-> 2, ModeExt |-> 2, Copyright |-> 1, Original |-> 1,
    Emphasis |-> 2 ]
RECURSIVE SumWidths(_)
SumWidths(names) ==
  IF names = {} THEN 0
  ELSE LET n == CHOOSE x \in names : TRUE
       IN  FieldWidth[n] + SumWidths(names \ {n})
Repack(h) ==
  << h.Emphasis + 4 * h.Original + 8 * h.Copyright + 16 * h.ModeExt
       + 64 * h.ChannelMode,
     h.Unused + 2 * h.IsPadded + 4 * h.Srfi + 16 * h.BitrateIdx,
     h.CrcProtected + 2 * h.LayerDesc + 8 * h.AudioVer
       + 32 * (h.FrameSync % 8),
     h.FrameSync \div 8 >>
C8_NoValidation ==
  ncalls > 0 =>
    /\ Len(fr) >= 4 =>
         /\ Decoded
         /\ ret.hdr.FrameSync = (fr[3] \div 32) + 8 * fr[4]
         /\ ret.hdr.LayerDesc = Bits(fr[3], 1, 2)
         /\ ret.hdr.Srfi = Bits(fr[2], 2, 2)
         /\ ret.hdr.Emphasis = Bits(fr[1], 0, 2)
    /\ ~Decoded => Len(fr) < 4
C8_Witness ==
  /\ Decoded /\ Len(fr) = 4
  /\ ret.hdr.FrameSync # 2047 /\ ret.hdr.LayerDesc = 0
  /\ ret.hdr.Srfi = 3 /\ ret.hdr.Emphasis = 2

\* C9: a failed read makes Load return (nil, error) with nothing decoded and
\* no header line printed, the path is reported, main never exits normally
\* and the file is read once; a failed stat likewise returns an error with
\* nothing decoded.
HeaderLines ==
  { i \in 1..Len(out) :
      out[i][1] \in {"Emphasis: ", "Original copy: ", "Is copyrighted: "} }
C9_IoFailure ==
  /\ nreads <= 1
  /\ io.read = "fail" =>
       /\ handle = Nil /\ err # Nil
       /\ frame = NoRet /\ ndecodes = 0 /\ HeaderLines = {}
       /\ \E i \in 1..Len(out) : out[i] = <<"error: failed to open", Path>>
       /\ nreads = 1
       /\ pc \in {"ret", "abort"}
       /\ pc = "abort" => panicmsg = "bailing" /\ out[Len(out)] = <<"Could not find ", Path>>
  /\ io.stat = "fail" =>
       /\ handle = Nil /\ err # Nil
       /\ frame = NoRet /\ ndecodes = 0 /\ HeaderLines = {}
       /\ pc \in {"ret", "abort"}
C9_Witness ==
  io.read = "fail" /\ pc = "abort" /\ panicmsg = "bailing" /\ nreads = 1

\* C10: for every decoded header "Original copy" is "yes" exactly when bit 2
\* of the first file byte is set and "Is copyrighted" is "yes" exactly when
\* bit 3 is set.
YesNo(b) == IF b = 1 THEN "yes" ELSE "no"
C10_YesNoStrings ==
  frame.kind = "hdr" =>
    /\ Len(out) = 5
    /\ out[4] = <<"Original copy: ", YesNo(Bits(file[1], 2, 1))>>
    /\ out[5] = <<"Is copyrighted: ", YesNo(Bits(file[1], 3, 1))>>
C10_Witness ==
  /\ frame.kind = "hdr"
  /\ out[4] = <<"Original copy: ", "yes">>
  /\ out[5] = <<"Is copyrighted: ", "no">>
====
